---- MODULE Spec2Model ----
(***************************************************************************)
(* Model of the PawPaw backend: the swipe / mutual-match endpoint          *)
(* (routes/swipes.ts), the match push channel (routes/matches.ts), the     *)
(* gift / wallet endpoints (routes/gifts.ts) and the profile update and    *)
(* delete endpoints (routes/pets.ts) over the relational schema of         *)
(* db/schema.ts.  Every request handler is a process whose steps are the   *)
(* handler's storage round trips (its awaits); requests interleave at      *)
(* those points only.                                                      *)
(***************************************************************************)
EXTENDS Integers, Sequences, FiniteSets, Bags, TLC

VARIABLES petProfiles, swipes, matches, wsConnections, pushed,
          sreqs, nSwipe, sresp,
          userWallets, gifts, greqs, nGift, gresp,
          preqs, nPet, presp,
          liveStreams, lreqs, nLive, lresp

vars == <<petProfiles, swipes, matches, wsConnections, pushed,
          sreqs, nSwipe, sresp,
          userWallets, gifts, greqs, nGift, gresp,
          preqs, nPet, presp,
          liveStreams, lreqs, nLive, lresp>>

swipeVars == <<petProfiles, swipes, matches, wsConnections, pushed,
               sreqs, nSwipe, sresp>>
giftVars == <<userWallets, gifts, greqs, nGift, gresp>>
petVars == <<preqs, nPet, presp>>
liveVars == <<liveStreams, lreqs, nLive, lresp>>

(***************************************************************************)
(* Bounds and input populations                                            *)
(***************************************************************************)
MaxSwipeReqs == 3

Users == {"A", "B", "C"}

PetIds == {"P1", "P2", "P3", "P4"}

\* owner given to each pet id when its profile was created (POST /api/pets)
PetOwner == [p \in PetIds |->
               CASE p = "P1" -> "A"
                 [] p = "P2" -> "B"
                 [] p = "P3" -> "A"
                 [] OTHER    -> "C"]

SwipeTypes == {"like", "pass"}

\* profiles created before the first swipe: one profile per user, or user A
\* with a second profile (POST /api/pets does not limit profiles per user);
\* user C has no profile and P4 was never created
InitialProfiles == {{"P1", "P2"}, {"P1", "P2", "P3"}}

NoPet == "none"

(***************************************************************************)
(* Storage: tables are sets of rows, constraints are enforced by inserts   *)
(***************************************************************************)
\* pet_profiles row as created by POST /api/pets: likes_count defaults to 0
NewPetRow(p) ==
  [id |-> p, ownerId |-> PetOwner[p], name |-> "n0", likesCount |-> 0]

\* value of swipedPet / userPet when findFirst returns undefined
NoPetRow == [id |-> NoPet, ownerId |-> "none", name |-> "", likesCount |-> 0]

\* db.query.petProfiles.findFirst({ where: eq(id, p) })
FindPetById(p) ==
  IF \E row \in petProfiles : row.id = p
    THEN CHOOSE row \in petProfiles : row.id = p
    ELSE NoPetRow

\* the rows db.query.petProfiles.findFirst({ where: eq(ownerId, u) }) may
\* return: the query has no ORDER BY, so any profile of the user
PetsOwnedBy(u) == {row \in petProfiles : row.ownerId = u}

\* mutant: the check compares the profile's id with the user id
OwnPet_ComparesId(sp, u) == sp.id = u

\* the own-pet check
OwnPet(sp, u) == sp.ownerId = u

\* unique index swipes_swiper_pet_unique
SwipeConflict(rows, row) ==
  \E s \in rows : s.swiperId = row.swiperId /\ s.swipedPetId = row.swipedPetId

\* mutant: the insert overwrites the stored row (onConflictDoUpdate)
InsertSwipe_Upsert(rows, row) ==
  {s \in rows : ~(s.swiperId = row.swiperId /\ s.swipedPetId = row.swipedPetId)}
    \cup {row}

\* insert(schema.swipes).values(row).onConflictDoNothing()
InsertSwipe(rows, row) ==
  IF SwipeConflict(rows, row) THEN rows ELSE rows \cup {row}

\* mutant: the handler does not test the row returned by the insert
AfterSwipeInsert_NoGuard(inserted, t) ==
  IF t = "like" THEN "updateLikes" ELSE "respond"

\* what the handler does after the swipe insert returned
AfterSwipeInsert(inserted, t) ==
  IF ~inserted THEN "rejected"
  ELSE IF t = "like" THEN "updateLikes" ELSE "respond"

\* update(petProfiles).set({ likesCount: swipedPet.likesCount + 1 }).where(id)
UpdateLikes(rows, p, snapshot) ==
  {IF row.id = p THEN [row EXCEPT !.likesCount = snapshot.likesCount + 1]
                 ELSE row : row \in rows}

\* mutant: the reverse lookup does not filter on swipeType
MutualLike_AnyType(rows, owner, pet) ==
  \E s \in rows : s.swiperId = owner /\ s.swipedPetId = pet

\* db.query.swipes.findFirst({ swiperId = owner, swipedPetId = pet, 'like' })
MutualLike(rows, owner, pet) ==
  \E s \in rows : /\ s.swiperId = owner
                  /\ s.swipedPetId = pet
                  /\ s.swipeType = "like"

\* unique index matches_users_unique on (user1_id, user2_id)
MatchConflict(rows, row) ==
  \E m \in rows : m.user1Id = row.user1Id /\ m.user2Id = row.user2Id

\* insert(schema.matches).values(row).onConflictDoNothing()
InsertMatch(rows, row) ==
  IF MatchConflict(rows, row) THEN rows ELSE rows \cup {row}

\* wsConnections holds the registered sockets, one per user at most; a
\* socket is OPEN until its closing handshake starts and stays registered,
\* CLOSING, until its close event is handled
NewSocket(u) == [user |-> u, readyState |-> "OPEN"]

\* mutant: the broadcast sends without testing readyState
OpenSocket_AnyState(conns, u) == \E c \in conns : c.user = u

\* wsConnections.get(u) has a socket with readyState === 1
OpenSocket(conns, u) == [user |-> u, readyState |-> "OPEN"] \in conns

\* messages broadcastMatchNotification sends: one per matched user that has
\* a registered open socket, carrying the other user's pet
Broadcast(conns, m) ==
  (IF OpenSocket(conns, m.user1Id)
     THEN <<[to |-> m.user1Id, user1Id |-> m.user1Id, user2Id |-> m.user2Id,
             pet |-> m.pet2Id]>>
     ELSE <<>>)
  \o
  (IF OpenSocket(conns, m.user2Id)
     THEN <<[to |-> m.user2Id, user1Id |-> m.user1Id, user2Id |-> m.user2Id,
             pet |-> m.pet1Id]>>
     ELSE <<>>)

(***************************************************************************)
(* POST /api/swipes                                                        *)
(***************************************************************************)
NoMatch == [user1Id |-> "none", user2Id |-> "none",
            pet1Id |-> NoPet, pet2Id |-> NoPet]

\* the locals of one running handler
NewSwipeReq(u, p, t) ==
  [user |-> u, petId |-> p, swipeType |-> t, pc |-> "insertSwipe",
   swipedPet |-> NoPetRow, swipe |-> FALSE, userPet |-> NoPetRow,
   matchCreated |-> NoMatch]

\* the HTTP response of a handler
SwipeResponse(r, code, msg) ==
  [user |-> r.user, petId |-> r.petId, swipeType |-> r.swipeType,
   status |-> code, error |-> msg, match |-> r.matchCreated]

NoSwipeResponse ==
  [user |-> "none", petId |-> NoPet, swipeType |-> "none",
   status |-> 0, error |-> "", match |-> NoMatch]

\* the requests in flight after request r took a step to r2
SwipeStep(r, r2) == (sreqs (-) SetToBag({r})) (+) SetToBag({r2})

\* the requests in flight after request r returned
SwipeReturn(r) == sreqs (-) SetToBag({r})

\* number of swipe requests that have returned
SwipesDone == nSwipe - BagCardinality(sreqs)

\* a request arrives; the handler reads the swiped pet and validates it
S_Start(u, p, t) ==
  /\ nSwipe < MaxSwipeReqs
  /\ nSwipe' = nSwipe + 1
  /\ LET sp == FindPetById(p)
         r  == [NewSwipeReq(u, p, t) EXCEPT !.swipedPet = sp]
     IN IF sp.id = NoPet
          THEN /\ sresp' = SwipeResponse(r, 404, "Pet not found")
               /\ sreqs' = sreqs
        ELSE IF OwnPet(sp, u)
          THEN /\ sresp' = SwipeResponse(r, 400, "Cannot swipe on own pet")
               /\ sreqs' = sreqs
          ELSE /\ sresp' = sresp
               /\ sreqs' = sreqs (+) SetToBag({r})
  /\ UNCHANGED <<petProfiles, swipes, matches, wsConnections, pushed>>
  /\ UNCHANGED <<giftVars, petVars, liveVars>>

\* record the swipe; a conflict on the unique index returns no row
S_InsertSwipe(r) ==
  /\ r.pc = "insertSwipe"
  /\ LET row == [swiperId |-> r.user, swipedPetId |-> r.petId,
                 swipeType |-> r.swipeType]
         inserted == ~SwipeConflict(swipes, row)
         nxt == AfterSwipeInsert(inserted, r.swipeType)
         r2  == [r EXCEPT !.swipe = inserted]
     IN IF \A pr \in petProfiles : pr.id # r.petId
          THEN \* foreign key swiped_pet_id -> pet_profiles.id
               /\ swipes' = swipes
               /\ sresp' = SwipeResponse(r, 500, "storage")
               /\ sreqs' = SwipeReturn(r)
          ELSE /\ swipes' = InsertSwipe(swipes, row)
               /\ IF nxt = "rejected"
                    THEN /\ sresp' = SwipeResponse(r2, 400,
                                       "Already swiped on this pet")
                         /\ sreqs' = SwipeReturn(r)
                  ELSE IF nxt = "respond"
                    THEN /\ sresp' = SwipeResponse(r2, 200, "")
                         /\ sreqs' = SwipeReturn(r)
                    ELSE /\ sresp' = sresp
                         /\ sreqs' = SwipeStep(r, [r2 EXCEPT !.pc = nxt])
  /\ UNCHANGED <<petProfiles, matches, wsConnections, pushed, nSwipe>>
  /\ UNCHANGED <<giftVars, petVars, liveVars>>

\* a like increments the counter from the value read at the start
S_UpdateLikes(r) ==
  /\ r.pc = "updateLikes"
  /\ petProfiles' = UpdateLikes(petProfiles, r.petId, r.swipedPet)
  /\ sreqs' = SwipeStep(r, [r EXCEPT !.pc = "readUserPet"])
  /\ UNCHANGED <<swipes, matches, wsConnections, pushed, nSwipe, sresp>>
  /\ UNCHANGED <<giftVars, petVars, liveVars>>

\* look up a profile of the swiper
S_ReadUserPet(r) ==
  /\ r.pc = "readUserPet"
  /\ IF PetsOwnedBy(r.user) = {}
       THEN /\ sresp' = SwipeResponse(r, 200, "")
            /\ sreqs' = SwipeReturn(r)
       ELSE /\ sresp' = sresp
            /\ \E up \in PetsOwnedBy(r.user) :
                 sreqs' = SwipeStep(r, [r EXCEPT !.userPet = up,
                                                 !.pc = "readMutual"])
  /\ UNCHANGED <<petProfiles, swipes, matches, wsConnections, pushed, nSwipe>>
  /\ UNCHANGED <<giftVars, petVars, liveVars>>

\* look up the reverse like
S_ReadMutual(r) ==
  /\ r.pc = "readMutual"
  /\ IF MutualLike(swipes, r.swipedPet.ownerId, r.userPet.id)
       THEN /\ sresp' = sresp
            /\ sreqs' = SwipeStep(r, [r EXCEPT !.pc = "insertMatch"])
       ELSE /\ sresp' = SwipeResponse(r, 200, "")
            /\ sreqs' = SwipeReturn(r)
  /\ UNCHANGED <<petProfiles, swipes, matches, wsConnections, pushed, nSwipe>>
  /\ UNCHANGED <<giftVars, petVars, liveVars>>

\* mutant: the two pet ids of the inserted row are exchanged
NewMatchRow_SwappedPets(r) ==
  [user1Id |-> r.user, user2Id |-> r.swipedPet.ownerId,
   pet1Id |-> r.swipedPet.id, pet2Id |-> r.userPet.id]

\* values({ user1Id, user2Id, pet1Id, pet2Id }) of the match insert
NewMatchRow(r) ==
  [user1Id |-> r.user, user2Id |-> r.swipedPet.ownerId,
   pet1Id |-> r.userPet.id, pet2Id |-> r.swipedPet.id]

\* create the match; a conflict on the unique index returns no row
S_InsertMatch(r) ==
  /\ r.pc = "insertMatch"
  /\ LET row == NewMatchRow(r)
     IN IF \E p \in {row.pet1Id, row.pet2Id} :
             \A pr \in petProfiles : pr.id # p
          THEN \* foreign keys pet1_id, pet2_id -> pet_profiles.id
               /\ matches' = matches
               /\ sresp' = SwipeResponse(r, 500, "storage")
               /\ sreqs' = SwipeReturn(r)
          ELSE /\ matches' = InsertMatch(matches, row)
               /\ IF MatchConflict(matches, row)
                    THEN /\ sresp' = SwipeResponse(r, 200, "")
                         /\ sreqs' = SwipeReturn(r)
                    ELSE /\ sresp' = sresp
                         /\ sreqs' = SwipeStep(r, [r EXCEPT
                                        !.matchCreated = row, !.pc = "notify"])
  /\ UNCHANGED <<petProfiles, swipes, wsConnections, pushed, nSwipe>>
  /\ UNCHANGED <<giftVars, petVars, liveVars>>

\* the request that inserted the match broadcasts it and answers
S_Notify(r) ==
  /\ r.pc = "notify"
  /\ pushed' = pushed \o Broadcast(wsConnections, r.matchCreated)
  /\ sresp' = SwipeResponse(r, 200, "")
  /\ sreqs' = SwipeReturn(r)
  /\ UNCHANGED <<petProfiles, swipes, matches, wsConnections, nSwipe>>
  /\ UNCHANGED <<giftVars, petVars, liveVars>>

\* the storage round trip a swipe handler waits on fails: the pending
\* statement has no effect, earlier statements stay, the handler rethrows
S_StorageFailure(r) ==
  /\ r.pc # "notify"
  /\ sresp' = SwipeResponse(r, 500, "storage")
  /\ sreqs' = SwipeReturn(r)
  /\ UNCHANGED <<petProfiles, swipes, matches, wsConnections, pushed, nSwipe>>
  /\ UNCHANGED <<giftVars, petVars, liveVars>>

(***************************************************************************)
(* GET /api/ws/matches: the match notification sockets                     *)
(***************************************************************************)
\* a user opens the notification socket: the handler registers it
WS_Connect(u) ==
  /\ \A c \in wsConnections : c.user # u
  /\ wsConnections' = wsConnections \cup {NewSocket(u)}
  /\ UNCHANGED <<petProfiles, swipes, matches, pushed, sreqs, nSwipe, sresp>>
  /\ UNCHANGED <<giftVars, petVars, liveVars>>

\* the closing handshake of a socket starts: it is no longer OPEN
WS_Closing(u) ==
  /\ NewSocket(u) \in wsConnections
  /\ wsConnections' = (wsConnections \ {NewSocket(u)})
                        \cup {[user |-> u, readyState |-> "CLOSING"]}
  /\ UNCHANGED <<petProfiles, swipes, matches, pushed, sreqs, nSwipe, sresp>>
  /\ UNCHANGED <<giftVars, petVars, liveVars>>

\* socket.on('close'): the socket is removed from the registry
WS_Close(u) ==
  /\ [user |-> u, readyState |-> "CLOSING"] \in wsConnections
  /\ wsConnections' = wsConnections \ {[user |-> u, readyState |-> "CLOSING"]}
  /\ UNCHANGED <<petProfiles, swipes, matches, pushed, sreqs, nSwipe, sresp>>
  /\ UNCHANGED <<giftVars, petVars, liveVars>>

(***************************************************************************)
(* POST /api/gifts and GET /api/wallet                                     *)
(***************************************************************************)
MaxGiftReqs == 3

\* users that send and receive gifts and read their wallet
GiftUsers == {"A", "B"}

\* giftType values sent by clients: an affordable kind, a kind dearer than
\* the starting balance and an unknown kind
GiftTypes == {"toy", "steak", "catnip"}

GIFT_VALUES == [k \in {"bone", "toy", "steak"} |->
                  CASE k = "bone" -> 10
                    [] k = "toy"  -> 50
                    [] OTHER      -> 500]

\* keys for which GIFT_VALUES[giftType] is an inherited, truthy non-number
InheritedKeys == {"constructor"}

\* !GIFT_VALUES[giftType] is false
ValidGiftType(k) == k \in DOMAIN GIFT_VALUES \/ k \in InheritedKeys

\* coinCost is a number the coin_value column accepts
NumericCost(k) == k \in DOMAIN GIFT_VALUES

\* mutant: every kind costs the price of a bone
CoinCost_FlatBone(k) == GIFT_VALUES["bone"]

\* coinCost where it is a number
CoinCost(k) == IF NumericCost(k) THEN GIFT_VALUES[k] ELSE 0

\* mutant: the handler does not compare the balance with the cost
Insufficient_NoCheck(w, k) == FALSE

\* senderWallet.balance < coinCost (false when coinCost is not a number)
Insufficient(w, k) == NumericCost(k) /\ w.balance < CoinCost(k)

DefaultBalance == 100

\* mutant: the insert leaves the balance to a zero default
NewWalletRow_ZeroBalance(u) == [userId |-> u, balance |-> 0, totalEarned |-> 0]

\* mutant: the two columns of the insert are exchanged
NewWalletRow_SwappedColumns(u) ==
  [userId |-> u, balance |-> 0, totalEarned |-> 100]

\* values({ userId, balance: 100, totalEarned: 0 })
NewWalletRow(u) ==
  [userId |-> u, balance |-> DefaultBalance, totalEarned |-> 0]

\* value of a wallet local when findFirst returns undefined
NoWallet == [userId |-> "none", balance |-> 0, totalEarned |-> 0]

\* db.query.userWallets.findFirst({ where: eq(userId, u) })
FindWallet(u) ==
  IF \E w \in userWallets : w.userId = u
    THEN CHOOSE w \in userWallets : w.userId = u
    ELSE NoWallet

\* primary key user_wallets.user_id: a second insert for a user throws
WalletConflict(u) == \E w \in userWallets : w.userId = u

\* update(userWallets).set({ balance: b }).where(eq(userId, u))
SetBalance(rows, u, b) ==
  {IF w.userId = u THEN [w EXCEPT !.balance = b] ELSE w : w \in rows}

\* update(userWallets).set({ totalEarned: e }).where(eq(userId, u))
SetTotalEarned(rows, u, e) ==
  {IF w.userId = u THEN [w EXCEPT !.totalEarned = e] ELSE w : w \in rows}

\* the locals of one running gift or wallet handler
NewGiftReq(kind, u, rcv, k) ==
  [kind |-> kind, user |-> u, receiverId |-> rcv, giftType |-> k,
   pc |-> "start", senderWallet |-> NoWallet, receiverWallet |-> NoWallet]

\* the HTTP response of a gift or wallet handler
GiftResponse(r, code, msg, bal, earned) ==
  [kind |-> r.kind, user |-> r.user, receiverId |-> r.receiverId,
   giftType |-> r.giftType, status |-> code, error |-> msg,
   balance |-> bal, totalEarned |-> earned]

NoGiftResponse ==
  [kind |-> "none", user |-> "none", receiverId |-> "none",
   giftType |-> "none", status |-> 0, error |-> "",
   balance |-> 0, totalEarned |-> 0]

GiftStep(r, r2) == (greqs (-) SetToBag({r})) (+) SetToBag({r2})

GiftReturn(r) == greqs (-) SetToBag({r})

\* number of gift and wallet requests that have returned
GiftsDone == nGift - BagCardinality(greqs)

\* a gift request arrives: validate the type, read the sender's wallet and,
\* when it exists, check the balance
G_Start(u, rcv, k) ==
  /\ nGift < MaxGiftReqs
  /\ nGift' = nGift + 1
  /\ LET w == FindWallet(u)
         r == [NewGiftReq("gift", u, rcv, k) EXCEPT !.senderWallet = w]
     IN IF ~ValidGiftType(k)
          THEN /\ gresp' = GiftResponse(r, 400, "Invalid gift type", 0, 0)
               /\ greqs' = greqs
        ELSE IF w = NoWallet
          THEN /\ gresp' = gresp
               /\ greqs' = greqs (+) SetToBag({[r EXCEPT !.pc = "createSender"]})
        ELSE IF Insufficient(w, k)
          THEN /\ gresp' = GiftResponse(r, 400, "Insufficient balance", 0, 0)
               /\ greqs' = greqs
          ELSE /\ gresp' = gresp
               /\ greqs' = greqs (+) SetToBag({[r EXCEPT !.pc = "insertGift"]})
  /\ UNCHANGED <<userWallets, gifts>>
  /\ UNCHANGED <<swipeVars, petVars, liveVars>>

\* create the sender's wallet, then check the balance
G_CreateSender(r) ==
  /\ r.pc = "createSender"
  /\ IF WalletConflict(r.user)
       THEN /\ userWallets' = userWallets
            /\ gresp' = GiftResponse(r, 500, "storage", 0, 0)
            /\ greqs' = GiftReturn(r)
       ELSE LET w == NewWalletRow(r.user)
            IN /\ userWallets' = userWallets \cup {w}
               /\ IF Insufficient(w, r.giftType)
                    THEN /\ gresp' = GiftResponse(r, 400,
                                       "Insufficient balance", 0, 0)
                         /\ greqs' = GiftReturn(r)
                    ELSE /\ gresp' = gresp
                         /\ greqs' = GiftStep(r, [r EXCEPT !.senderWallet = w,
                                                          !.pc = "insertGift"])
  /\ UNCHANGED <<gifts, nGift>>
  /\ UNCHANGED <<swipeVars, petVars, liveVars>>

\* create the gift record
G_InsertGift(r) ==
  /\ r.pc = "insertGift"
  /\ IF ~NumericCost(r.giftType)
       THEN \* coin_value integer NOT NULL rejects the value
            /\ gifts' = gifts
            /\ gresp' = GiftResponse(r, 500, "storage", 0, 0)
            /\ greqs' = GiftReturn(r)
       ELSE /\ gifts' = gifts (+) SetToBag({[senderId |-> r.user,
                                  receiverId |-> r.receiverId,
                                  giftType |-> r.giftType,
                                  coinValue |-> CoinCost(r.giftType)]})
            /\ gresp' = gresp
            /\ greqs' = GiftStep(r, [r EXCEPT !.pc = "debit"])
  /\ UNCHANGED <<userWallets, nGift>>
  /\ UNCHANGED <<swipeVars, petVars, liveVars>>

\* write the sender's balance computed from the wallet read earlier
G_Debit(r) ==
  /\ r.pc = "debit"
  /\ userWallets' = SetBalance(userWallets, r.user,
                               r.senderWallet.balance - CoinCost(r.giftType))
  /\ greqs' = GiftStep(r, [r EXCEPT !.pc = "readReceiver"])
  /\ UNCHANGED <<gifts, nGift, gresp>>
  /\ UNCHANGED <<swipeVars, petVars, liveVars>>

\* read the receiver's wallet
G_ReadReceiver(r) ==
  /\ r.pc = "readReceiver"
  /\ LET w == FindWallet(r.receiverId)
     IN greqs' = GiftStep(r, [r EXCEPT !.receiverWallet = w,
                    !.pc = IF w = NoWallet THEN "createReceiver" ELSE "credit"])
  /\ UNCHANGED <<userWallets, gifts, nGift, gresp>>
  /\ UNCHANGED <<swipeVars, petVars, liveVars>>

\* create the receiver's wallet
G_CreateReceiver(r) ==
  /\ r.pc = "createReceiver"
  /\ IF WalletConflict(r.receiverId)
       THEN /\ userWallets' = userWallets
            /\ gresp' = GiftResponse(r, 500, "storage", 0, 0)
            /\ greqs' = GiftReturn(r)
       ELSE LET w == NewWalletRow(r.receiverId)
            IN /\ userWallets' = userWallets \cup {w}
               /\ gresp' = gresp
               /\ greqs' = GiftStep(r, [r EXCEPT !.receiverWallet = w,
                                                !.pc = "credit"])
  /\ UNCHANGED <<gifts, nGift>>
  /\ UNCHANGED <<swipeVars, petVars, liveVars>>

\* write the receiver's totalEarned computed from the wallet read earlier
G_Credit(r) ==
  /\ r.pc = "credit"
  /\ userWallets' = SetTotalEarned(userWallets, r.receiverId,
                      r.receiverWallet.totalEarned + CoinCost(r.giftType))
  /\ gresp' = GiftResponse(r, 200, "",
                r.senderWallet.balance - CoinCost(r.giftType), 0)
  /\ greqs' = GiftReturn(r)
  /\ UNCHANGED <<gifts, nGift>>
  /\ UNCHANGED <<swipeVars, petVars, liveVars>>

\* GET /api/wallet: read the user's wallet
W_Start(u) ==
  /\ nGift < MaxGiftReqs
  /\ nGift' = nGift + 1
  /\ LET w == FindWallet(u)
         r == NewGiftReq("wallet", u, "none", "none")
     IN IF w = NoWallet
          THEN /\ gresp' = gresp
               /\ greqs' = greqs (+) SetToBag({[r EXCEPT !.pc = "createWallet"]})
          ELSE /\ gresp' = GiftResponse(r, 200, "", w.balance, w.totalEarned)
               /\ greqs' = greqs
  /\ UNCHANGED <<userWallets, gifts>>
  /\ UNCHANGED <<swipeVars, petVars, liveVars>>

\* GET /api/wallet: create the missing wallet and return it
W_Create(r) ==
  /\ r.pc = "createWallet"
  /\ IF WalletConflict(r.user)
       THEN /\ userWallets' = userWallets
            /\ gresp' = GiftResponse(r, 500, "storage", 0, 0)
       ELSE LET w == NewWalletRow(r.user)
            IN /\ userWallets' = userWallets \cup {w}
               /\ gresp' = GiftResponse(r, 200, "", w.balance, w.totalEarned)
  /\ greqs' = GiftReturn(r)
  /\ UNCHANGED <<gifts, nGift>>
  /\ UNCHANGED <<swipeVars, petVars, liveVars>>

\* a storage round trip of a gift handler fails: the pending statement has no
\* effect and the handler rethrows
G_StorageFailure(r) ==
  /\ r.kind = "gift"
  /\ gresp' = GiftResponse(r, 500, "storage", 0, 0)
  /\ greqs' = GiftReturn(r)
  /\ UNCHANGED <<userWallets, gifts, nGift>>
  /\ UNCHANGED <<swipeVars, petVars, liveVars>>

(***************************************************************************)
(* PUT /api/pets/:id and DELETE /api/pets/:id                              *)
(***************************************************************************)
MaxPetReqs == 1

PetOps == {"put", "delete"}

\* name sent in the body of a PUT
NewNames == {"n1"}

\* update(petProfiles).set({ name }).where(eq(id, p)): likesCount is not set
SetName(rows, p, n) ==
  {IF row.id = p THEN [row EXCEPT !.name = n] ELSE row : row \in rows}

\* delete(petProfiles).where(eq(id, p))
DeletePet(rows, p) == {row \in rows : row.id # p}

\* swipes.swiped_pet_id references pet_profiles.id, onDelete: 'cascade'
CascadeSwipes(rows, p) == {s \in rows : s.swipedPetId # p}

\* matches.pet1_id and pet2_id reference pet_profiles.id, onDelete: 'cascade'
CascadeMatches(rows, p) == {m \in rows : m.pet1Id # p /\ m.pet2Id # p}

\* live_streams.pet_id references pet_profiles.id, onDelete: 'cascade'
CascadeStreams(rows, p) == {st \in rows : st.petId # p}

\* the locals of one running profile handler
NewPetReq(op, u, p, n) ==
  [op |-> op, user |-> u, petId |-> p, name |-> n]

\* the HTTP response of a profile handler
PetResponse(r, code, msg) ==
  [op |-> r.op, user |-> r.user, petId |-> r.petId, status |-> code,
   error |-> msg]

NoPetResponse ==
  [op |-> "none", user |-> "none", petId |-> NoPet, status |-> 0, error |-> ""]

PetReturn(r) == preqs (-) SetToBag({r})

\* a PUT or DELETE arrives: the handler reads the profile and checks ownership
P_Start(op, u, p, n) ==
  /\ nPet < MaxPetReqs
  /\ nPet' = nPet + 1
  /\ LET existingPet == FindPetById(p)
         r == NewPetReq(op, u, p, n)
     IN IF existingPet.id = NoPet
          THEN /\ presp' = PetResponse(r, 404, "Pet not found")
               /\ preqs' = preqs
        ELSE IF existingPet.ownerId # u
          THEN /\ presp' = PetResponse(r, 403, "Not authorized")
               /\ preqs' = preqs
          ELSE /\ presp' = presp
               /\ preqs' = preqs (+) SetToBag({r})
  /\ UNCHANGED <<swipeVars, giftVars, liveVars>>

\* POST /api/pets: insert a profile owned by the caller under a new id (the
\* ids of PetOwner stand for the generated uuids); nothing is read or
\* checked before the insert
P_Create(u) ==
  /\ \E p \in PetIds :
       /\ PetOwner[p] = u
       /\ \A row \in petProfiles : row.id # p
       /\ petProfiles' = petProfiles \cup {NewPetRow(p)}
       /\ presp' = PetResponse(NewPetReq("post", u, p, "n0"), 200, "")
  /\ UNCHANGED <<swipes, matches, wsConnections, pushed, sreqs, nSwipe, sresp>>
  /\ UNCHANGED <<giftVars, preqs, nPet, liveVars>>

\* PUT: write the fields of the body and return the updated row; when the
\* row is gone the update returns no row and reading it throws
P_Update(r) ==
  /\ r.op = "put"
  /\ petProfiles' = SetName(petProfiles, r.petId, r.name)
  /\ presp' = IF \E row \in petProfiles : row.id = r.petId
                THEN PetResponse(r, 200, "")
                ELSE PetResponse(r, 500, "storage")
  /\ preqs' = PetReturn(r)
  /\ UNCHANGED <<swipes, matches, wsConnections, pushed, sreqs, nSwipe, sresp>>
  /\ UNCHANGED <<giftVars, nPet, liveVars>>

\* DELETE: remove the profile; its swipes and matches go with it
P_Delete(r) ==
  /\ r.op = "delete"
  /\ petProfiles' = DeletePet(petProfiles, r.petId)
  /\ swipes' = CascadeSwipes(swipes, r.petId)
  /\ matches' = CascadeMatches(matches, r.petId)
  /\ liveStreams' = CascadeStreams(liveStreams, r.petId)
  /\ presp' = PetResponse(r, 200, "")
  /\ preqs' = PetReturn(r)
  /\ UNCHANGED <<wsConnections, pushed, sreqs, nSwipe, sresp>>
  /\ UNCHANGED <<giftVars, nPet, lreqs, nLive, lresp>>

(***************************************************************************)
(* POST /api/live/start and POST /api/live/end/:streamId                   *)
(***************************************************************************)
MaxLiveReqs == 3

\* users that start and end streams: A owns P1, B does not
LiveUsers == {"A", "B"}

NoStream == 0

\* ids of the streams that end requests name
StreamIds == 1..MaxLiveReqs

\* values({ petId, ownerId, title }): is_active defaults to true
NewStreamRow(id, p, u) ==
  [id |-> id, petId |-> p, ownerId |-> u, isActive |-> TRUE]

\* the rows findFirst({ petId = p, isActive = true }) may return: the query
\* has no ORDER BY
ActiveStreams(rows, p) == {st \in rows : st.petId = p /\ st.isActive}

\* update(liveStreams).set({ isActive: false }).where(eq(id, id))
EndStream(rows, id) ==
  {IF st.id = id THEN [st EXCEPT !.isActive = FALSE] ELSE st : st \in rows}

\* the locals of one running live handler; n is the id its insert generates
NewLiveReq(op, u, p, sid, n) ==
  [op |-> op, user |-> u, petId |-> p, streamId |-> sid, n |-> n,
   pc |-> "start", existingStream |-> NoStream]

\* the HTTP response of a live handler
LiveResponse(r, code, msg, sid) ==
  [op |-> r.op, user |-> r.user, petId |-> r.petId, status |-> code,
   error |-> msg, streamId |-> sid]

NoLiveResponse ==
  [op |-> "none", user |-> "none", petId |-> NoPet, status |-> 0,
   error |-> "", streamId |-> NoStream]

LiveStep(r, r2) == (lreqs (-) SetToBag({r})) (+) SetToBag({r2})

LiveReturn(r) == lreqs (-) SetToBag({r})

\* a start request arrives: read the pet and check ownership
L_Start(u, p) ==
  /\ nLive < MaxLiveReqs
  /\ nLive' = nLive + 1
  /\ LET pet == FindPetById(p)
         r == NewLiveReq("start", u, p, NoStream, nLive + 1)
     IN IF pet.id = NoPet
          THEN /\ lresp' = LiveResponse(r, 404, "Pet not found", NoStream)
               /\ lreqs' = lreqs
        ELSE IF pet.ownerId # u
          THEN /\ lresp' = LiveResponse(r, 403, "Not authorized", NoStream)
               /\ lreqs' = lreqs
          ELSE /\ lresp' = lresp
               /\ lreqs' = lreqs (+) SetToBag({[r EXCEPT !.pc = "findActive"]})
  /\ UNCHANGED <<swipeVars, giftVars, petVars, liveStreams>>

\* look for an active stream of the pet
L_FindActive(r) ==
  /\ r.pc = "findActive"
  /\ IF ActiveStreams(liveStreams, r.petId) = {}
       THEN lreqs' = LiveStep(r, [r EXCEPT !.pc = "insert"])
       ELSE \E st \in ActiveStreams(liveStreams, r.petId) :
              lreqs' = LiveStep(r, [r EXCEPT !.existingStream = st.id,
                                             !.pc = "endExisting"])
  /\ UNCHANGED <<swipeVars, giftVars, petVars, liveStreams, nLive, lresp>>

\* end the stream that was found
L_EndExisting(r) ==
  /\ r.pc = "endExisting"
  /\ liveStreams' = EndStream(liveStreams, r.existingStream)
  /\ lreqs' = LiveStep(r, [r EXCEPT !.pc = "insert"])
  /\ UNCHANGED <<swipeVars, giftVars, petVars, nLive, lresp>>

\* create the new stream and answer with its id
L_Insert(r) ==
  /\ r.pc = "insert"
  /\ IF \A pr \in petProfiles : pr.id # r.petId
       THEN \* foreign key pet_id -> pet_profiles.id
            /\ liveStreams' = liveStreams
            /\ lresp' = LiveResponse(r, 500, "storage", NoStream)
       ELSE /\ liveStreams' = liveStreams
                                \cup {NewStreamRow(r.n, r.petId, r.user)}
            /\ lresp' = LiveResponse(r, 200, "", r.n)
  /\ lreqs' = LiveReturn(r)
  /\ UNCHANGED <<swipeVars, giftVars, petVars, nLive>>

\* an end request arrives: read the stream and check ownership
L_EndStart(u, sid) ==
  /\ nLive < MaxLiveReqs
  /\ nLive' = nLive + 1
  /\ LET r == NewLiveReq("end", u, NoPet, sid, NoStream)
     IN IF \A st \in liveStreams : st.id # sid
          THEN /\ lresp' = LiveResponse(r, 404, "Stream not found", sid)
               /\ lreqs' = lreqs
        ELSE IF (CHOOSE st \in liveStreams : st.id = sid).ownerId # u
          THEN /\ lresp' = LiveResponse(r, 403, "Not authorized", sid)
               /\ lreqs' = lreqs
          ELSE /\ lresp' = lresp
               /\ lreqs' = lreqs (+) SetToBag({[r EXCEPT !.pc = "end"]})
  /\ UNCHANGED <<swipeVars, giftVars, petVars, liveStreams>>

\* end the stream
L_End(r) ==
  /\ r.pc = "end"
  /\ liveStreams' = EndStream(liveStreams, r.streamId)
  /\ lresp' = LiveResponse(r, 200, "", r.streamId)
  /\ lreqs' = LiveReturn(r)
  /\ UNCHANGED <<swipeVars, giftVars, petVars, nLive>>

(***************************************************************************)
(* Specifications: the swipe endpoint, the gift and wallet endpoints                                     *)
(***************************************************************************)
InitGift ==
  /\ userWallets = {}
  /\ gifts = EmptyBag
  /\ greqs = EmptyBag
  /\ nGift = 0
  /\ gresp = NoGiftResponse

InitSwipe ==
  /\ \E created \in InitialProfiles :
       petProfiles = {NewPetRow(p) : p \in created}
  /\ swipes = {}
  /\ matches = {}
  /\ wsConnections = {NewSocket("A")}
  /\ pushed = <<>>
  /\ sreqs = EmptyBag
  /\ nSwipe = 0
  /\ sresp = NoSwipeResponse

InitPets ==
  /\ preqs = EmptyBag
  /\ nPet = 0
  /\ presp = NoPetResponse

InitLive ==
  /\ liveStreams = {}
  /\ lreqs = EmptyBag
  /\ nLive = 0
  /\ lresp = NoLiveResponse

Init == InitSwipe /\ InitGift /\ InitPets /\ InitLive

NextSwipe ==
  \/ \E u \in Users, p \in PetIds, t \in SwipeTypes : S_Start(u, p, t)
  \/ \E r \in BagToSet(sreqs) : S_InsertSwipe(r)
  \/ \E r \in BagToSet(sreqs) : S_UpdateLikes(r)
  \/ \E r \in BagToSet(sreqs) : S_ReadUserPet(r)
  \/ \E r \in BagToSet(sreqs) : S_ReadMutual(r)
  \/ \E r \in BagToSet(sreqs) : S_InsertMatch(r)
  \/ \E r \in BagToSet(sreqs) : S_Notify(r)

SpecSwipe == Init /\ [][NextSwipe]_vars

NextGift ==
  \/ \E u \in GiftUsers, rcv \in GiftUsers, k \in GiftTypes : G_Start(u, rcv, k)
  \/ \E r \in BagToSet(greqs) : G_CreateSender(r)
  \/ \E r \in BagToSet(greqs) : G_InsertGift(r)
  \/ \E r \in BagToSet(greqs) : G_Debit(r)
  \/ \E r \in BagToSet(greqs) : G_ReadReceiver(r)
  \/ \E r \in BagToSet(greqs) : G_CreateReceiver(r)
  \/ \E r \in BagToSet(greqs) : G_Credit(r)
  \/ \E u \in GiftUsers : W_Start(u)
  \/ \E r \in BagToSet(greqs) : W_Create(r)

SpecGift == Init /\ [][NextGift]_vars

\* the gift endpoint with storage failures injected
NextGiftFail ==
  \/ NextGift
  \/ \E r \in BagToSet(greqs) : G_StorageFailure(r)

SpecGiftFail == Init /\ [][NextGiftFail]_vars

\* giftType values of the body: the three kinds, an unknown kind and a key
\* every object inherits
AllGiftTypes == {"bone", "toy", "steak", "catnip", "constructor"}

MaxKindReqs == 2

\* the gift and wallet endpoints with every giftType value
NextGiftKinds ==
  \/ /\ nGift < MaxKindReqs
     /\ \E u \in GiftUsers, rcv \in GiftUsers, k \in AllGiftTypes :
          G_Start(u, rcv, k)
  \/ \E r \in BagToSet(greqs) : G_CreateSender(r)
  \/ \E r \in BagToSet(greqs) : G_InsertGift(r)
  \/ \E r \in BagToSet(greqs) : G_Debit(r)
  \/ \E r \in BagToSet(greqs) : G_ReadReceiver(r)
  \/ \E r \in BagToSet(greqs) : G_CreateReceiver(r)
  \/ \E r \in BagToSet(greqs) : G_Credit(r)
  \/ /\ nGift < MaxKindReqs
     /\ \E u \in GiftUsers : W_Start(u)
  \/ \E r \in BagToSet(greqs) : W_Create(r)

SpecGiftKinds == Init /\ [][NextGiftKinds]_vars

\* users that like profile P1 of user A while A updates or deletes it: D
\* owns no profile
P1Likers == {"B", "C", "D"}

\* likes together with an update or a deletion of P1 or of the missing P4,
\* requested by the owner A or by B
NextPets ==
  \/ \E u \in P1Likers : S_Start(u, "P1", "like")
  \/ S_Start("A", "P2", "like")
  \/ \E r \in BagToSet(sreqs) : S_InsertSwipe(r)
  \/ \E r \in BagToSet(sreqs) : S_UpdateLikes(r)
  \/ \E r \in BagToSet(sreqs) : S_ReadUserPet(r)
  \/ \E r \in BagToSet(sreqs) : S_ReadMutual(r)
  \/ \E r \in BagToSet(sreqs) : S_InsertMatch(r)
  \/ \E r \in BagToSet(sreqs) : S_Notify(r)
  \/ \E op \in PetOps, u \in {"A", "B"}, p \in {"P1", "P4"}, n \in NewNames :
       P_Start(op, u, p, n)
  \/ \E r \in BagToSet(preqs) : P_Update(r)
  \/ \E r \in BagToSet(preqs) : P_Delete(r)

SpecPets == Init /\ [][NextPets]_vars

\* users that like each other's profile and open and close their socket
NotifyUsers == {"A", "B"}

\* likes between A and B while their notification sockets open and close
NextNotify ==
  \/ \E u \in NotifyUsers, p \in {"P1", "P2", "P3"} : S_Start(u, p, "like")
  \/ \E r \in BagToSet(sreqs) : S_InsertSwipe(r)
  \/ \E r \in BagToSet(sreqs) : S_UpdateLikes(r)
  \/ \E r \in BagToSet(sreqs) : S_ReadUserPet(r)
  \/ \E r \in BagToSet(sreqs) : S_ReadMutual(r)
  \/ \E r \in BagToSet(sreqs) : S_InsertMatch(r)
  \/ \E r \in BagToSet(sreqs) : S_Notify(r)
  \/ \E u \in NotifyUsers : WS_Connect(u)
  \/ \E u \in NotifyUsers : WS_Closing(u)
  \/ \E u \in NotifyUsers : WS_Close(u)

SpecNotify == Init /\ [][NextNotify]_vars

\* likes between A and B, retried at will, with storage failures injected
NextSwipeFail ==
  \/ \E u \in NotifyUsers, p \in {"P1", "P2"} : S_Start(u, p, "like")
  \/ \E r \in BagToSet(sreqs) : S_InsertSwipe(r)
  \/ \E r \in BagToSet(sreqs) : S_UpdateLikes(r)
  \/ \E r \in BagToSet(sreqs) : S_ReadUserPet(r)
  \/ \E r \in BagToSet(sreqs) : S_ReadMutual(r)
  \/ \E r \in BagToSet(sreqs) : S_InsertMatch(r)
  \/ \E r \in BagToSet(sreqs) : S_Notify(r)
  \/ \E r \in BagToSet(sreqs) : S_StorageFailure(r)

SpecSwipeFail == Init /\ [][NextSwipeFail]_vars

\* the live stream endpoints
NextLive ==
  \/ \E u \in LiveUsers, p \in {"P1", "P4"} : L_Start(u, p)
  \/ \E r \in BagToSet(lreqs) : L_FindActive(r)
  \/ \E r \in BagToSet(lreqs) : L_EndExisting(r)
  \/ \E r \in BagToSet(lreqs) : L_Insert(r)
  \/ \E u \in LiveUsers, sid \in StreamIds : L_EndStart(u, sid)
  \/ \E r \in BagToSet(lreqs) : L_End(r)

SpecLive == Init /\ [][NextLive]_vars

\* no profile has been created yet
InitNoProfiles ==
  /\ petProfiles = {}
  /\ swipes = {}
  /\ matches = {}
  /\ wsConnections = {}
  /\ pushed = <<>>
  /\ sreqs = EmptyBag
  /\ nSwipe = 0
  /\ sresp = NoSwipeResponse
  /\ InitGift
  /\ InitPets
  /\ InitLive

\* profile create, update and delete requests of every user
NextProfiles ==
  \/ \E u \in Users : P_Create(u)
  \/ \E op \in PetOps, u \in Users, p \in PetIds, n \in NewNames :
       P_Start(op, u, p, n)
  \/ \E r \in BagToSet(preqs) : P_Update(r)
  \/ \E r \in BagToSet(preqs) : P_Delete(r)

SpecProfiles == InitNoProfiles /\ [][NextProfiles]_vars

(***************************************************************************)
(* Claims about the swipe endpoint                                         *)
(***************************************************************************)
InFlightSwipes == BagToSet(sreqs)

\* the handler has gone past the swipe insert
PastInsert(r) == r.pc # "insertSwipe"

SwipeReplied == SwipesDone' = SwipesDone + 1

LikeStored(u, p) ==
  [swiperId |-> u, swipedPetId |-> p, swipeType |-> "like"] \in swipes

OwnerOfPet(p) == FindPetById(p).ownerId

MatchFor(a, b) ==
  {m \in matches : {m.user1Id, m.user2Id} = {a, b}}

\* C1: there is at most one match row per unordered pair of users: rows
\* (A,B) and (B,A) never both exist.
C1_OneMatchPerPair ==
  \A m1, m2 \in matches :
    {m1.user1Id, m1.user2Id} = {m2.user1Id, m2.user2Id} => m1 = m2

\* C2: when A, owning a profile, has liked a profile of B and B, owning a
\* profile, has liked a profile of A, and the two requests that stored these
\* likes have returned, a match row for {A,B} exists.
C2_MutualLikesMatch ==
  \A pa, pb \in petProfiles :
    LET a == pa.ownerId
        b == pb.ownerId
    IN (/\ a # b
        /\ LikeStored(a, pb.id)
        /\ LikeStored(b, pa.id)
        /\ \A r \in InFlightSwipes :
             ~(r.swipe /\ <<r.user, r.petId>> \in {<<a, pb.id>>, <<b, pa.id>>}))
       => MatchFor(a, b) # {}

\* C3: a step that creates a match row for users A and B is taken only while
\* a like by A on a profile owned by B and a like by B on a profile owned by
\* A are both stored.
C3_NoPrematureMatch ==
  [][\A m \in matches' \ matches :
       /\ m.user1Id # m.user2Id
       /\ LikeStored(m.user1Id, m.pet2Id)
       /\ LikeStored(m.user2Id, m.pet1Id)
       /\ OwnerOfPet(m.pet1Id) = m.user1Id
       /\ OwnerOfPet(m.pet2Id) = m.user2Id]_vars

C3_Witness ==
  /\ MatchFor("A", "B") # {}
  /\ \E s \in swipes : s.swiperId = "C" /\ s.swipeType = "like"

\* C4: there is at most one swipe row per (swiperId, swipedPetId); a stored
\* row is never changed; every request that went past the insert stored its
\* own row, so a later or concurrent request for the same pair is rejected
\* with 'Already swiped on this pet' and leaves the stored decision.
C4_SwipeUnique ==
  /\ [](\A s1, s2 \in swipes :
          (s1.swiperId = s2.swiperId /\ s1.swipedPetId = s2.swipedPetId)
            => s1 = s2)
  /\ [](\A r \in InFlightSwipes :
          PastInsert(r) =>
            /\ [swiperId |-> r.user, swipedPetId |-> r.petId,
                swipeType |-> r.swipeType] \in swipes
            /\ CopiesIn(r, sreqs) = 1
            /\ \A q \in InFlightSwipes :
                 (PastInsert(q) /\ q.user = r.user /\ q.petId = r.petId)
                   => q = r)
  /\ [][/\ swipes \subseteq swipes'
        /\ (SwipeReplied /\ sresp'.error = "Already swiped on this pet")
             => /\ swipes' = swipes
                /\ sresp'.status = 400
                /\ \E s \in swipes : /\ s.swiperId = sresp'.user
                                     /\ s.swipedPetId = sresp'.petId]_vars

C4_Witness ==
  /\ sresp.error = "Already swiped on this pet"
  /\ \E s \in swipes : /\ s.swiperId = sresp.user
                       /\ s.swipedPetId = sresp.petId
                       /\ s.swipeType # sresp.swipeType

\* C5: a request rejected as a duplicate returns at once: the rejecting step
\* changes no likesCount, match row or notification, and only requests whose
\* insert returned a row run the counter, match check and notification.
C5_DuplicateNoEffects ==
  /\ [](\A r \in InFlightSwipes : PastInsert(r) => r.swipe)
  /\ [][(SwipeReplied /\ sresp'.error = "Already swiped on this pet")
          => /\ UNCHANGED <<petProfiles, swipes, matches, pushed>>
             /\ sresp'.match = NoMatch
             /\ \E r \in InFlightSwipes :
                  /\ r.pc = "insertSwipe"
                  /\ sreqs' = SwipeReturn(r)]_vars

C5_Witness ==
  /\ sresp.error = "Already swiped on this pet"
  /\ sresp.swipeType = "like"
  /\ LikeStored(sresp.user, sresp.petId)
  /\ matches # {}

\* C6: a swipe on a profile owned by the requesting user is answered 400
\* 'Cannot swipe on own pet' for both decisions, never runs the handler
\* further and changes no swipe, likesCount or match.
C6_OwnPetRejected ==
  /\ [](\A r \in InFlightSwipes : r.swipedPet.ownerId # r.user)
  /\ [](\A s \in swipes : OwnerOfPet(s.swipedPetId) # s.swiperId)
  /\ [][SwipeReplied =>
          /\ (OwnerOfPet(sresp'.petId) = sresp'.user
                => /\ sresp'.status = 400
                   /\ sresp'.error = "Cannot swipe on own pet")
          /\ (sresp'.error = "Cannot swipe on own pet"
                => UNCHANGED <<petProfiles, swipes, matches, pushed, sreqs>>)]_vars

C6_Witness ==
  /\ sresp.error = "Cannot swipe on own pet"
  /\ sresp.status = 400
  /\ sresp.swipeType = "pass"
  /\ sresp.petId = "P3"
  /\ swipes # {}

(***************************************************************************)
(* Claims about the gift and wallet endpoints                              *)
(***************************************************************************)
InFlightGifts == {r \in BagToSet(greqs) : r.kind = "gift"}

GiftReplied == GiftsDone' = GiftsDone + 1

\* the balance GET /api/wallet reports for u: a missing row reads as the
\* default wallet
EffBalance(rows, u) ==
  IF \E w \in rows : w.userId = u
    THEN (CHOOSE w \in rows : w.userId = u).balance
    ELSE DefaultBalance

\* the handler has passed the balance check
PastCheck(r) == r.pc \notin {"start", "createSender"}

\* the handler has inserted its gift row / written the sender's balance
GiftRecorded(r) == r.pc \in {"debit", "readReceiver", "createReceiver", "credit"}
Debited(r) == r.pc \in {"readReceiver", "createReceiver", "credit"}

RECURSIVE SumCoins(_, _)
SumCoins(bag, rows) ==
  IF rows = {} THEN 0
  ELSE LET g == CHOOSE x \in rows : TRUE
       IN g.coinValue * CopiesIn(g, bag) + SumCoins(bag, rows \ {g})

\* total coinValue of the gift rows recorded for sender u
SentTotal(u) == SumCoins(gifts, {g \in BagToSet(gifts) : g.senderId = u})

\* C7: every wallet's balance is >= 0; only requests whose cost the balance
\* read covers go past the check; a send answered 'Insufficient balance'
\* costs more than the sender's balance and leaves that balance unchanged.
C7_WalletNonNegative ==
  /\ [](\A w \in userWallets : w.balance >= 0)
  /\ [](\A r \in InFlightGifts :
          PastCheck(r) => r.senderWallet.balance >= CoinCost(r.giftType))
  /\ [][(GiftReplied /\ gresp'.error = "Insufficient balance")
          => /\ gresp'.status = 400
             /\ CoinCost(gresp'.giftType) > EffBalance(userWallets, gresp'.user)
             /\ EffBalance(userWallets', gresp'.user)
                  = EffBalance(userWallets, gresp'.user)]_vars

C7_Witness ==
  /\ gresp.error = "Insufficient balance"
  /\ gresp.giftType = "toy"
  /\ \E w \in userWallets : w.userId = gresp.user /\ w.balance = 0
  /\ SentTotal(gresp.user) = 100

\* C8: the total coinValue of the gift rows recorded for a sender never
\* exceeds the 100 coins the sender's wallet started with.
C8_NoOverdraw == \A u \in GiftUsers : SentTotal(u) <= DefaultBalance

\* C9: a gift request returns either with all three of gift row recorded,
\* sender debited, receiver credited, or with none of them.
C9_GiftAtomic ==
  [][\A r \in InFlightGifts :
       (greqs' = GiftReturn(r) /\ nGift' = nGift)
         => \/ /\ gresp'.status = 200
               /\ GiftRecorded(r) /\ Debited(r) /\ r.pc = "credit"
            \/ ~GiftRecorded(r) /\ ~Debited(r)]_vars

\* C10 as stated: a gift send answered 'Invalid gift type' or 'Insufficient
\* balance' leaves the wallet and gift tables unchanged.
C10_FailureNoMutation ==
  [][(GiftReplied /\ gresp'.error \in {"Invalid gift type",
                                       "Insufficient balance"})
       => UNCHANGED <<userWallets, gifts>>]_vars

\* C10 amended: a gift send answered 'Invalid gift type' changes nothing;
\* one answered 'Insufficient balance' writes no gift row and modifies no
\* existing wallet row, the only write it may make is the sender's missing
\* wallet row with balance 100 and totalEarned 0; a request that has not
\* passed the check has written nothing else either.
C10_FailureOnlyDefaultWallet ==
  /\ [](\A r \in InFlightGifts :
          ~PastCheck(r) => /\ r.pc = "createSender"
                           /\ r.senderWallet = NoWallet)
  /\ [][(GiftReplied /\ gresp'.error \in {"Invalid gift type",
                                          "Insufficient balance"})
          => /\ gifts' = gifts
             /\ userWallets \subseteq userWallets'
             /\ \A w \in userWallets' \ userWallets :
                  /\ w = [userId |-> gresp'.user, balance |-> 100,
                          totalEarned |-> 0]
                  /\ gresp'.error = "Insufficient balance"
                  /\ \A x \in userWallets : x.userId # w.userId]_vars

C10_Witness ==
  /\ gresp.error = "Insufficient balance"
  /\ gresp.giftType = "steak"
  /\ userWallets = {[userId |-> gresp.user, balance |-> 100, totalEarned |-> 0]}
  /\ gifts = EmptyBag

\* the wallet row of user u among rows
WalletIn(rows, u) == CHOOSE w \in rows : w.userId = u

\* C11: the debit of a gift send lowers the sender's stored balance by
\* exactly the cost and changes nothing else; its credit raises the
\* receiver's stored totalEarned by exactly the cost and changes nothing
\* else; the newBalance returned is the sender's stored balance.
C11_ExactDebitCredit ==
  [][\A r \in InFlightGifts :
       /\ (r.pc = "debit"
             /\ greqs' = GiftStep(r, [r EXCEPT !.pc = "readReceiver"]))
            => userWallets' = SetBalance(userWallets, r.user,
                 WalletIn(userWallets, r.user).balance - CoinCost(r.giftType))
       /\ (r.pc = "credit" /\ greqs' = GiftReturn(r) /\ gresp'.status = 200)
            => /\ userWallets' = SetTotalEarned(userWallets, r.receiverId,
                    WalletIn(userWallets, r.receiverId).totalEarned
                      + CoinCost(r.giftType))
               /\ gresp'.balance = WalletIn(userWallets', r.user).balance]_vars

\* C19: no step raises the stored balance of an existing wallet.
C19_BalanceOnlyDecreases ==
  [][\A w \in userWallets : \A w2 \in userWallets' :
       w2.userId = w.userId => w2.balance <= w.balance]_vars

\* C20: no step lowers the stored totalEarned of an existing wallet, and the
\* only step that changes a wallet's totalEarned is the credit of a gift sent
\* to that user (the debit of the owner's own sends leaves it).
C20_TotalEarnedOnlyIncreases ==
  [][\A w \in userWallets : \A w2 \in userWallets' :
       w2.userId = w.userId =>
         /\ w2.totalEarned >= w.totalEarned
         /\ w2.totalEarned # w.totalEarned =>
              \E r \in InFlightGifts : /\ r.pc = "credit"
                                       /\ r.receiverId = w.userId
                                       /\ greqs' = GiftReturn(r)]_vars

\* C12: GET /api/wallet for a user without a wallet row answers balance 100
\* and totalEarned 0 and stores exactly that row; for a user with a row it
\* answers the stored values and writes nothing, so a second read with no
\* gift in between answers the same; no user ever has two wallet rows.
C12_WalletLazyDefaults ==
  /\ [](\A w1, w2 \in userWallets : w1.userId = w2.userId => w1 = w2)
  /\ [][(GiftReplied /\ gresp'.kind = "wallet") =>
          IF \A w \in userWallets : w.userId # gresp'.user
            THEN /\ gresp'.status = 200
                 /\ gresp'.balance = 100
                 /\ gresp'.totalEarned = 0
                 /\ userWallets' = userWallets \cup
                      {[userId |-> gresp'.user, balance |-> 100,
                        totalEarned |-> 0]}
            ELSE /\ userWallets' = userWallets
                 /\ gresp'.status = 200 =>
                      /\ gresp'.balance
                           = WalletIn(userWallets, gresp'.user).balance
                      /\ gresp'.totalEarned
                           = WalletIn(userWallets, gresp'.user).totalEarned]_vars

C12_Witness ==
  /\ gresp.kind = "wallet"
  /\ gresp.status = 200
  /\ gresp.balance = 100
  /\ gresp.totalEarned = 0
  /\ nGift = 2
  /\ greqs = EmptyBag
  /\ gifts = EmptyBag
  /\ userWallets = {[userId |-> gresp.user, balance |-> 100, totalEarned |-> 0]}

\* C13: a gift request whose giftType is not bone, toy or steak never gets
\* past validation (it is never waiting on a wallet or gift statement) and is
\* answered 400.
C13_UnknownKindRejected ==
  /\ \A r \in InFlightGifts : r.giftType \in {"bone", "toy", "steak"}
  /\ (gresp.kind = "gift" /\ gresp.giftType \notin {"bone", "toy", "steak"})
       => gresp.status = 400

\* C14: every gift row carries the fixed price of its kind (bone 10, toy 50,
\* steak 500), and no step removes or changes a gift row.
C14_GiftRowsPricedAndKept ==
  /\ [](\A g \in BagToSet(gifts) :
          \/ g.giftType = "bone" /\ g.coinValue = 10
          \/ g.giftType = "toy" /\ g.coinValue = 50
          \/ g.giftType = "steak" /\ g.coinValue = 500)
  /\ [][\A g \in BagToSet(gifts) :
          CopiesIn(g, gifts') >= CopiesIn(g, gifts)]_vars

C14_Witness ==
  /\ \E g \in BagToSet(gifts) : g.giftType = "bone"
  /\ \E g \in BagToSet(gifts) : g.giftType = "toy"


(***************************************************************************)
(* Claims about the like counter and repeated likes                        *)
(***************************************************************************)
\* the like rows stored on profile p
LikesOn(p) == {s \in swipes : s.swipedPetId = p /\ s.swipeType = "like"}

\* C15: once every accepted like on a profile has run its counter step, the
\* profile's likesCount equals the number of like rows stored on it.
C15_LikesCounted ==
  \A row \in petProfiles :
    (\A r \in InFlightSwipes : ~(r.petId = row.id /\ r.pc = "updateLikes"))
      => row.likesCount = Cardinality(LikesOn(row.id))

\* the step taken is a step of the in-flight request r
StepOf(r) == CopiesIn(r, sreqs') < CopiesIn(r, sreqs)

\* r repeats a like that is stored, and a match of r's user with the owner
\* of the liked profile exists
RepeatedMatchedLike(r) ==
  /\ r.pc = "insertSwipe"
  /\ r.swipeType = "like"
  /\ LikeStored(r.user, r.petId)
  /\ MatchFor(r.user, r.swipedPet.ownerId) # {}

\* C17 as stated: the reply to a repeated like of a matched pair carries the
\* existing match, and no match row is created.
C17_RepeatReturnsMatch ==
  [][\A r \in InFlightSwipes :
       (RepeatedMatchedLike(r) /\ StepOf(r)) =>
         /\ sresp'.match \in MatchFor(r.user, r.swipedPet.ownerId)
         /\ matches' = matches]_vars

\* C17 amended: a repeated like of a matched pair is answered 400 'Already
\* swiped on this pet' at the insert, without a match in the reply; the
\* existing match stays and no match row is created.
C17_RepeatRejectedMatchKept ==
  [][\A r \in InFlightSwipes :
       (RepeatedMatchedLike(r) /\ StepOf(r)) =>
         /\ sreqs' = SwipeReturn(r)
         /\ sresp'.status = 400
         /\ sresp'.error = "Already swiped on this pet"
         /\ sresp'.match = NoMatch
         /\ matches' = matches
         /\ MatchFor(r.user, r.swipedPet.ownerId)' # {}]_vars

C17_Witness ==
  /\ sresp.status = 400
  /\ sresp.error = "Already swiped on this pet"
  /\ sresp.swipeType = "like"
  /\ sresp.match = NoMatch
  /\ LikeStored(sresp.user, sresp.petId)
  /\ MatchFor(sresp.user, OwnerOfPet(sresp.petId)) # {}
  /\ nSwipe = 3
  /\ sreqs = EmptyBag


(***************************************************************************)
(* Claims about profile updates and deletions                              *)
(***************************************************************************)
\* C16: likesCount of a profile is never below 0, no step lowers it, and
\* only the counter step of an accepted like on that profile changes it.
C16_LikesMonotonic ==
  /\ [](\A row \in petProfiles : row.likesCount >= 0)
  /\ [][\A row \in petProfiles : \A row2 \in petProfiles' :
          row2.id = row.id =>
            /\ row2.likesCount >= row.likesCount
            /\ row2.likesCount # row.likesCount =>
                 \E r \in InFlightSwipes :
                   /\ r.pc = "updateLikes"
                   /\ r.petId = row.id
                   /\ r.swipeType = "like"
                   /\ StepOf(r)]_vars

\* C18: a stored swipe row and a stored match row exist unchanged in every
\* later state.
C18_RowsNeverDeleted ==
  [][swipes \subseteq swipes' /\ matches \subseteq matches']_vars


(***************************************************************************)
(* Claims about the order of a gift send, wallet creation and conservation *)
(***************************************************************************)
\* C22: no state has a gift row whose debit has not been applied: a request
\* that has written its gift row has written the sender's balance before.
C22_RecordAfterTransfer ==
  \A r \in InFlightGifts : GiftRecorded(r) => Debited(r)

\* C23: no user has two wallet rows and no gift or wallet request is
\* answered with a storage error.
C23_CreationNeverFails ==
  /\ \A w1, w2 \in userWallets : w1.userId = w2.userId => w1 = w2
  /\ gresp.status # 500

\* total coinValue of the gift rows recorded for receiver u
ReceivedTotal(u) == SumCoins(gifts, {g \in BagToSet(gifts) : g.receiverId = u})

\* C27: when no gift or wallet request is in flight, every wallet's balance
\* is 100 minus the total coinValue of the gift rows its user sent.
C27_SenderConservation ==
  greqs = EmptyBag =>
    \A w \in userWallets : w.balance = 100 - SentTotal(w.userId)

\* C28: when no gift or wallet request is in flight, every wallet's
\* totalEarned is the total coinValue of the gift rows its user received.
C28_ReceiverConservation ==
  greqs = EmptyBag =>
    \A w \in userWallets : w.totalEarned = ReceivedTotal(w.userId)


(***************************************************************************)
(* Claims about match creation and match rows                              *)
(***************************************************************************)
\* C24: a like whose match insert writes no row because a match of the pair
\* exists is answered 200 with that existing match in the response.
C24_LostInsertReturnsMatch ==
  [][\A r \in InFlightSwipes :
       (/\ r.pc = "insertMatch"
        /\ StepOf(r)
        /\ matches' = matches
        /\ MatchFor(r.user, r.swipedPet.ownerId) # {})
         => /\ sresp'.status = 200
            /\ sresp'.match \in MatchFor(r.user, r.swipedPet.ownerId)]_vars

\* C29: every match row joins two different users, pet1Id is a profile
\* owned by user1Id and pet2Id is a profile owned by user2Id.
C29_MatchWellFormed ==
  \A m \in matches :
    /\ m.user1Id # m.user2Id
    /\ \E row \in petProfiles : row.id = m.pet1Id /\ row.ownerId = m.user1Id
    /\ \E row \in petProfiles : row.id = m.pet2Id /\ row.ownerId = m.user2Id

C29_Witness ==
  \E m \in matches : m.user1Id = "B" /\ m.pet1Id = "P2" /\ m.pet2Id = "P3"


(***************************************************************************)
(* Claims about the match notification                                     *)
(***************************************************************************)
\* the message a push of match m to user u carries: the other user's pet
PushFor(m, u) ==
  [to |-> u, user1Id |-> m.user1Id, user2Id |-> m.user2Id,
   pet |-> IF u = m.user1Id THEN m.pet2Id ELSE m.pet1Id]

C26_OneProfilePerUser ==
  \A p1, p2 \in petProfiles : p1.ownerId = p2.ownerId => p1.id = p2.id


(***************************************************************************)
(* Claims about live streams                                               *)
(***************************************************************************)
\* C30: no pet has two streams with isActive = true, and a stream that has
\* been ended is never active again.
C30_OneActiveStreamPerPet ==
  /\ [](\A s1, s2 \in liveStreams :
          (s1.petId = s2.petId /\ s1.isActive /\ s2.isActive) => s1 = s2)
  /\ [][\A s1 \in liveStreams : \A s2 \in liveStreams' :
          (s1.id = s2.id /\ ~s1.isActive) => ~s2.isActive]_vars


(***************************************************************************)
(* Claims about failures of the swipe endpoint                             *)
(***************************************************************************)
\* C25: a swipe request that is answered with a storage failure has written
\* nothing: it fails before its swipe insert took effect, so a retry runs
\* the whole operation.
C25_FailedSwipeWroteNothing ==
  [][\A r \in InFlightSwipes :
       (StepOf(r) /\ sresp'.status = 500) => ~PastInsert(r)]_vars

====
